---- MODULE Spec2Model ----
\* A model of edlreader's main.py: the EDL parser, the event/marker records,
\* the timecode offset engine with its original/current split, the metadata
\* derivation and the writer.
\*
\* A Python str is a sequence of one-character strings, so that split, strip,
\* slicing and str.isdigit are computed as Python computes them.  The objects
\* of class EDLEvent live in a heap (heap[ref]); original_events and
\* current_events are lists of references, as in Python.
EXTENDS Integers, Sequences, FiniteSets, TLC

VARIABLES edl_lines, resolvemarkers, df, status, header, heap,
          original_events, current_events, fps_, isoffset_, metadata, last

vars == <<edl_lines, resolvemarkers, df, status, header, heap,
          original_events, current_events, fps_, isoffset_, metadata, last>>

\* ------------------------------------------------------------------ bounds
MaxLines == 3
MaxAmount == 1
MaxFrames == 4

\* ------------------------------------------------------- Python str helpers
DigitChars == <<"0", "1", "2", "3", "4", "5", "6", "7", "8", "9">>

DigitSet == {DigitChars[i] : i \in 1..10}

\* str.isdigit of one character
isdigit(c) == c \in DigitSet

DigitOf == [c \in DigitSet |-> CHOOSE i \in 0..9 : DigitChars[i + 1] = c]

DigitVal(c) == DigitOf[c]

Whitespace == {" ", "\n", "\t"}

Max(a, b) == IF a > b THEN a ELSE b

\* s[n:]
SliceFrom(s, n) == IF n >= Len(s) THEN <<>> ELSE SubSeq(s, n + 1, Len(s))

\* s[:n]
SliceTo(s, n) == IF n >= Len(s) THEN s ELSE SubSeq(s, 1, n)

\* str.strip()
strip(s) ==
    LET keep == {i \in 1..Len(s) : s[i] \notin Whitespace}
    IN  IF keep = {} THEN <<>>
        ELSE LET lo == CHOOSE i \in keep : \A j \in keep : i <= j
                 hi == CHOOSE i \in keep : \A j \in keep : i >= j
             IN  SubSeq(s, lo, hi)

\* str.split(sep) for a one-character separator: every piece, empty ones too
RECURSIVE split(_, _)
split(s, sep) ==
    LET hits == {i \in 1..Len(s) : s[i] = sep}
    IN  IF hits = {} THEN <<s>>
        ELSE LET i == CHOOSE k \in hits : \A j \in hits : k <= j
             IN  <<SubSeq(s, 1, i - 1)>> \o split(SubSeq(s, i + 1, Len(s)), sep)

\* sep.join(parts)
RECURSIVE join(_, _)
join(sep, parts) ==
    IF Len(parts) = 0 THEN <<>>
    ELSE IF Len(parts) = 1 THEN parts[1]
    ELSE parts[1] \o sep \o join(sep, Tail(parts))

\* int(s) of a Python str: [ok, val]; ok is FALSE where int() raises
\* ValueError.  The strings given are unsigned: digits, or no number at all.
RECURSIVE DigitsVal(_)
DigitsVal(s) ==
    IF Len(s) = 0 THEN 0
    ELSE 10 * DigitsVal(SubSeq(s, 1, Len(s) - 1)) + DigitVal(s[Len(s)])

int(s) ==
    LET t == strip(s)
    IN  IF Len(t) > 0 /\ \A i \in 1..Len(t) : isdigit(t[i])
        THEN [ok |-> TRUE, val |-> DigitsVal(t)]
        ELSE [ok |-> FALSE, val |-> 0]

\* ------------------------------------------------ tclib3 (timecode service)
\* The library is imported (line 5) but its code is not part of the sources;
\* it is modelled from the specification's contract: tc_to_frames converts
\* HH:MM:SS:FF (or HH:MM:SS;FF) to a frame count and fails on anything else,
\* frames_to_tc renders a frame count with ';' before the frames when
\* drop_frame is set and ':' otherwise.
Tens(n) == DigitChars[((n \div 10) % 10) + 1]

Units(n) == DigitChars[(n % 10) + 1]

IsTimecode(tc) ==
    /\ Len(tc) = 11
    /\ \A i \in {1, 2, 4, 5, 7, 8, 10, 11} : isdigit(tc[i])
    /\ tc[3] = ":" /\ tc[6] = ":"
    /\ tc[9] \in {":", ";"}

\* the number tc[i], tc[i + 1] spell
Pair(tc, i) == 10 * DigitVal(tc[i]) + DigitVal(tc[i + 1])

tc_to_frames(tc, fps) ==
    IF IsTimecode(tc)
    THEN [ok |-> TRUE,
          val |-> ((Pair(tc, 1) * 60 + Pair(tc, 4)) * 60 + Pair(tc, 7)) * fps + Pair(tc, 10)]
    ELSE [ok |-> FALSE, val |-> 0]

frames_to_tc(frames, fps, drop_frame) ==
    LET secs == frames \div fps
        hh == secs \div 3600
        mm == (secs \div 60) % 60
        ss == secs % 60
        ff == frames % fps
    IN  <<Tens(hh), Units(hh), ":", Tens(mm), Units(mm), ":", Tens(ss), Units(ss),
          IF drop_frame THEN ";" ELSE ":", Tens(ff), Units(ff)>>

\* ---------------------------------------------------------- record model
\* EDLMarker.__post_init__: each field loses its first two characters and
\* the whitespace around what is left
EDLMarker(color, name, duration) ==
    [color |-> strip(SliceFrom(color, 2)),
     name |-> strip(SliceFrom(name, 2)),
     duration |-> strip(SliceFrom(duration, 2))]

\* EDLEvent(*info, marker=marker, notes=notes) for a list info of 8 tokens
EDLEvent(info, marker, notes) ==
    [event_number |-> info[1], reel_name |-> info[2], channel |-> info[3],
     transition |-> info[4], source_in |-> info[5], source_out |-> info[6],
     record_in |-> info[7], record_out |-> info[8],
     marker |-> marker, notes |-> notes]

Spaces(n) == [i \in 1..n |-> " "]

\* EDLEvent.__str__
EventStr(e) ==
    LET partone == e.event_number \o Spaces(2) \o e.reel_name \o Spaces(5) \o e.channel
        parttwo == Spaces(5) \o e.transition \o Spaces(8)
        partthree == e.source_in \o <<" ">> \o e.source_out \o <<" ">>
                     \o e.record_in \o <<" ">> \o e.record_out
    IN  partone \o parttwo \o partthree

\* ---------------------------------------------------------------- parser
\* EDLReader._read: the lines of the file without their newline, the empty
\* lines dropped
read_(file) == SelectSeq(file, LAMBDA l : l # <<>>)

\* line.split(" ") without its empty sections
Tokens(line) == SelectSeq(split(line, " "), LAMBDA section : section # <<>>)

\* EDLReader._remove_marker_from_comment
RECURSIVE remove_marker_from_comment(_)
remove_marker_from_comment(comment) ==
    IF comment = <<>> THEN <<>>
    ELSE LET line == Head(comment)
         IN  <<IF \E i \in 1..Len(line) : line[i] = "|"
                 THEN strip(split(line, "|")[1])
                 ELSE line>>
             \o remove_marker_from_comment(Tail(comment))

ParseStart ==
    [events |-> <<>>, event_info |-> <<>>, comment_lines |-> <<>>,
     current_event |-> <<>>, is_event |-> FALSE, is_header |-> TRUE,
     header |-> <<>>]

\* one iteration of the loop over edl_lines (lines 215-232)
ParseLine(st, line) ==
    LET closed ==
            IF st.is_event /\ isdigit(line[1])
            THEN [st EXCEPT !.events = Append(@, <<st.event_info, st.comment_lines>>),
                            !.event_info = <<>>, !.comment_lines = <<>>,
                            !.current_event = <<>>, !.is_event = FALSE]
            ELSE st
    IN  IF closed.is_event
        THEN [closed EXCEPT !.comment_lines = Append(@, line)]
        ELSE IF isdigit(line[1])
        THEN [closed EXCEPT !.event_info = Tokens(line), !.is_event = TRUE,
                            !.is_header = FALSE]
        ELSE IF closed.is_header
        THEN [closed EXCEPT !.header = Append(@, line)]
        ELSE closed

RECURSIVE ParseLoop(_, _)
ParseLoop(st, lines) ==
    IF lines = <<>> THEN st ELSE ParseLoop(ParseLine(st, Head(lines)), Tail(lines))

\* the end of the loop (lines 234-237)
ParseFlush(st) ==
    LET current_event ==
            IF st.event_info # <<>> /\ st.comment_lines # <<>>
            THEN <<st.event_info, st.comment_lines>>
            ELSE st.current_event
    IN  IF current_event # <<>> THEN Append(st.events, current_event) ELSE st.events

\* the (event_info, comment_lines) pairs the loop collects
RawEvents(lines) == ParseFlush(ParseLoop(ParseStart, lines))

\* one iteration of the loop over events (lines 240-248): the event built, or
\* the TypeError of the constructor call that fails (EDLMarker is called
\* before EDLEvent)
BuildEvent(event, rm) ==
    IF rm
    THEN LET markerstr == SliceFrom(split(join(<<"\n">>, event[2]), "|"), 1)
         IN  IF Len(markerstr) # 3
             THEN [err |-> "MalformedMarker", ev |-> <<>>]
             ELSE IF Len(event[1]) # 8
             THEN [err |-> "MalformedEvent", ev |-> <<>>]
             ELSE [err |-> "ok",
                   ev |-> <<EDLEvent(event[1],
                                     EDLMarker(markerstr[1], markerstr[2], markerstr[3]),
                                     remove_marker_from_comment(event[2]))>>]
    ELSE IF Len(event[1]) # 8
         THEN [err |-> "MalformedEvent", ev |-> <<>>]
         ELSE [err |-> "ok",
               ev |-> <<EDLEvent(event[1], EDLMarker(<<>>, <<>>, <<>>), event[2])>>]

RECURSIVE BuildEvents(_, _)
BuildEvents(events, rm) ==
    IF events = <<>> THEN [err |-> "ok", events |-> <<>>]
    ELSE LET first == BuildEvent(Head(events), rm)
         IN  IF first.err # "ok" THEN [err |-> first.err, events |-> <<>>]
             ELSE LET rest == BuildEvents(Tail(events), rm)
                  IN  IF rest.err # "ok" THEN rest
                      ELSE [err |-> "ok", events |-> first.ev \o rest.events]

\* EDLReader._parse_header_and_events: [err, header, events]
parse_header_and_events(lines, rm) ==
    LET built == BuildEvents(RawEvents(lines), rm)
    IN  [err |-> built.err,
         header |-> IF built.err = "ok" THEN ParseLoop(ParseStart, lines).header ELSE <<>>,
         events |-> built.events]

\* ------------------------------------------------------------ the heap
Range(f) == {f[i] : i \in DOMAIN f}

\* the EDLEvent objects a list of references points to, by value
Values(h, refs) == [i \in 1..Len(refs) |-> h[refs[i]]]

\* the list of EDLEvent objects the parser builds: objects 1..n
NewObjects(events) == [i \in 1..Len(events) |-> i]

\* deepcopy mutated: the copy is the list of the same objects
ShallowCopy(h, src) ==
    [heap |-> [r \in Range(src) |-> h[r]], refs |-> src]

\* deepcopy(self.original_events): a new object for every event of src.  The
\* list the copy replaces is garbage afterwards, so the new objects take the
\* first references src does not use.  [heap, refs]
deepcopy(h, src) ==
    LET n == Len(src)
        refs == [i \in 1..n |-> n + i]
    IN  [heap |-> [r \in Range(src) \cup Range(refs) |->
                      IF r \in Range(src) THEN h[r] ELSE h[src[r - n]]],
         refs |-> refs]

\* ------------------------------------------------- timecode transform engine
\* the fps property: <<>> is None
FpsUnset(f) == f = <<>>

\* _offset mutated: subtract is ignored, the offset is always added
OffsetAlwaysAdds(tc, offset, subtract, f, drop_frame) ==
    IF FpsUnset(f) THEN [err |-> "FrameRateUnset", tc |-> tc]
    ELSE IF ~tc_to_frames(tc, f[1]).ok THEN [err |-> "InvalidTimecode", tc |-> tc]
    ELSE [err |-> "ok",
          tc |-> frames_to_tc(tc_to_frames(tc, f[1]).val + offset, f[1], drop_frame)]

\* _offset mutated: a subtraction is not clamped
OffsetNoClamp(tc, offset, subtract, f, drop_frame) ==
    IF FpsUnset(f) THEN [err |-> "FrameRateUnset", tc |-> tc]
    ELSE LET frames == tc_to_frames(tc, f[1])
             new_frames == IF subtract THEN frames.val - offset ELSE frames.val + offset
         IN  IF ~frames.ok THEN [err |-> "InvalidTimecode", tc |-> tc]
             ELSE [err |-> "ok", tc |-> frames_to_tc(new_frames, f[1], drop_frame)]

\* EDLReader._offset: [err, tc]
offset_(tc, offset, subtract, f, drop_frame) ==
    IF FpsUnset(f) THEN [err |-> "FrameRateUnset", tc |-> tc]
    ELSE LET frames == tc_to_frames(tc, f[1])
             new_frames == IF subtract
                           THEN (IF frames.val - offset < 0 THEN 0 ELSE frames.val - offset)
                           ELSE frames.val + offset
         IN  IF ~frames.ok THEN [err |-> "InvalidTimecode", tc |-> tc]
             ELSE [err |-> "ok", tc |-> frames_to_tc(new_frames, f[1], drop_frame)]

\* OffsetFields mutated: the source flag is ignored
OffsetFieldsAll(offset_src) ==
    <<"source_in", "source_out", "record_in", "record_out">>

\* OffsetFields mutated: the out timecodes are not assigned
OffsetFieldsInOnly(offset_src) ==
    IF offset_src THEN <<"source_in", "record_in">> ELSE <<"record_in">>

\* the fields one iteration of the loop over current_events assigns, in order
OffsetFields(offset_src) ==
    IF offset_src THEN <<"source_in", "source_out", "record_in", "record_out">>
    ELSE <<"record_in", "record_out">>

\* the assignments of the whole loop, in order: <<position, field>>
RECURSIVE OffsetTargets(_, _, _)
OffsetTargets(i, n, offset_src) ==
    IF i > n THEN <<>>
    ELSE [k \in 1..Len(OffsetFields(offset_src)) |-> <<i, OffsetFields(offset_src)[k]>>]
         \o OffsetTargets(i + 1, n, offset_src)

\* OffsetLoop mutated: the event is built anew at each assignment, without
\* its notes
RECURSIVE OffsetLoopDropsNotes(_, _, _, _, _, _, _)
OffsetLoopDropsNotes(h, cur, targets, offset, subtract, f, drop_frame) ==
    IF targets = <<>> THEN [err |-> "ok", heap |-> h]
    ELSE LET ref == cur[Head(targets)[1]]
             fld == Head(targets)[2]
             r == offset_(h[ref][fld], offset, subtract, f, drop_frame)
         IN  IF r.err # "ok" THEN [err |-> r.err, heap |-> h]
             ELSE OffsetLoopDropsNotes([h EXCEPT ![ref] = [@ EXCEPT ![fld] = r.tc,
                                                                    !.notes = <<>>]],
                                       cur, Tail(targets), offset, subtract, f, drop_frame)

\* the loop of offset_forward / offset_backward: each assignment is made on
\* the heap as it is reached; an exception ends the loop and leaves the
\* assignments made so far.  [err, heap]
RECURSIVE OffsetLoop(_, _, _, _, _, _, _)
OffsetLoop(h, cur, targets, offset, subtract, f, drop_frame) ==
    IF targets = <<>> THEN [err |-> "ok", heap |-> h]
    ELSE LET ref == cur[Head(targets)[1]]
             fld == Head(targets)[2]
             r == offset_(h[ref][fld], offset, subtract, f, drop_frame)
         IN  IF r.err # "ok" THEN [err |-> r.err, heap |-> h]
             ELSE OffsetLoop([h EXCEPT ![ref][fld] = r.tc], cur, Tail(targets),
                             offset, subtract, f, drop_frame)

\* the first lines of offset_forward / offset_backward: [err, val]
OffsetFrames(offset, frames, f) ==
    IF frames
    THEN (IF int(offset).ok THEN [err |-> "ok", val |-> int(offset).val]
          ELSE [err |-> "ValueError", val |-> 0])
    ELSE IF FpsUnset(f) THEN [err |-> "FrameRateUnset", val |-> 0]
    ELSE IF ~tc_to_frames(offset, f[1]).ok THEN [err |-> "InvalidTimecode", val |-> 0]
    ELSE [err |-> "ok", val |-> tc_to_frames(offset, f[1]).val]

\* offset_forward (subtract FALSE) and offset_backward (subtract TRUE) as a
\* whole: [err, heap, isoffset]
Offset(h, cur, isoff, offset, frames, offset_src, subtract, f, drop_frame) ==
    LET amount == OffsetFrames(offset, frames, f)
        loop == OffsetLoop(h, cur, OffsetTargets(1, Len(cur), offset_src),
                           amount.val, subtract, f, drop_frame)
    IN  IF amount.err # "ok" THEN [err |-> amount.err, heap |-> h, isoffset |-> isoff]
        ELSE IF loop.err # "ok" THEN [err |-> loop.err, heap |-> loop.heap, isoffset |-> isoff]
        ELSE [err |-> "ok", heap |-> loop.heap, isoffset |-> TRUE]

\* reset mutated: current_events is not replaced
ResetKeepsCurrent(h, orig) == [heap |-> h, refs |-> current_events]

\* EDLReader.reset: [heap, refs]
reset(h, orig) == deepcopy(h, orig)

\* EDLReader.timecodes
timecodes(h, cur, src_tc) ==
    [i \in 1..Len(cur) |->
        IF src_tc THEN <<h[cur[i]].source_in, h[cur[i]].source_out>>
        ELSE <<h[cur[i]].record_in, h[cur[i]].record_out>>]

\* ------------------------------------------------------------------ writer
RECURSIVE WriteEvents(_)
WriteEvents(events) ==
    IF events = <<>> THEN <<>>
    ELSE <<EventStr(Head(events))>> \o Head(events).notes \o <<<<>>>>
         \o WriteEvents(Tail(events))

\* EDLReader.write: the lines of the file written, each ended by a newline
write(hdr, events) == hdr \o <<<<>>>> \o WriteEvents(events)

\* ---------------------------------------------------------------- metadata
\* the prefix the six keys of Metadata.colors share
ResolveColor == <<"R", "e", "s", "o", "l", "v", "e", "C", "o", "l", "o", "r">>

ResolveColorBlue == ResolveColor \o <<"B", "l", "u", "e">>

ResolveColorCyan == ResolveColor \o <<"C", "y", "a", "n">>

ResolveColorGreen == ResolveColor \o <<"G", "r", "e", "e", "n">>

ResolveColorYellow == ResolveColor \o <<"Y", "e", "l", "l", "o", "w">>

ResolveColorRed == ResolveColor \o <<"R", "e", "d">>

ResolveColorPink == ResolveColor \o <<"P", "i", "n", "k">>

\* Metadata.colors
colors ==
    [c \in {ResolveColorBlue, ResolveColorCyan, ResolveColorGreen,
            ResolveColorYellow, ResolveColorRed, ResolveColorPink} |->
        CASE c = ResolveColorBlue -> "prevon"
          [] c = ResolveColorCyan -> "maintitle"
          [] c = ResolveColorGreen -> "nexton"
          [] c = ResolveColorYellow -> "livingcreds"
          [] c = ResolveColorRed -> "endcreds"
          [] c = ResolveColorPink -> "textless"]

\* edl_path.name: the file's name is no part of what is modelled
EdlName == <<"e", ".", "e", "d", "l">>

\* Metadata()
NewMetadata ==
    [name |-> <<>>, prevon |-> <<<<>>, <<>>>>, maintitle |-> <<<<>>, <<>>>>,
     nexton |-> <<<<>>, <<>>>>, livingcreds |-> <<<<>>, <<>>>>,
     endcreds |-> <<<<>>, <<>>>>, textless |-> <<<<>>, <<>>>>]

\* MetadataEvent mutated: the start stored is the timecode handed to the
\* frame conversion
MetadataEventStoresRecIn(md, event, f, drop_frame) ==
    LET rec_in == IF drop_frame
                  THEN SliceTo(event.record_in, 8) \o <<";">> \o SliceFrom(event.record_in, 9)
                  ELSE event.record_in
    IN  IF event.marker.color \notin DOMAIN colors THEN [err |-> "KeyError", md |-> md]
        ELSE IF FpsUnset(f) THEN [err |-> "FrameRateUnset", md |-> md]
        ELSE IF ~tc_to_frames(rec_in, f[1]).ok THEN [err |-> "InvalidTimecode", md |-> md]
        ELSE IF ~int(event.marker.duration).ok THEN [err |-> "ValueError", md |-> md]
        ELSE LET attr == colors[event.marker.color]
                 recin_frames == tc_to_frames(rec_in, f[1]).val
                 dur == int(event.marker.duration).val - 1
                 recout == frames_to_tc(recin_frames + dur, f[1], drop_frame)
             IN  [err |-> "ok", md |-> [md EXCEPT ![attr] = <<rec_in, recout>>]]

\* one iteration of the loop of Metadata.set (lines 73-81): [err, md]
MetadataEvent(md, event, f, drop_frame) ==
    LET rec_in == IF drop_frame
                  THEN SliceTo(event.record_in, 8) \o <<";">> \o SliceFrom(event.record_in, 9)
                  ELSE event.record_in
    IN  IF event.marker.color \notin DOMAIN colors THEN [err |-> "KeyError", md |-> md]
        ELSE IF FpsUnset(f) THEN [err |-> "FrameRateUnset", md |-> md]
        ELSE IF ~tc_to_frames(rec_in, f[1]).ok THEN [err |-> "InvalidTimecode", md |-> md]
        ELSE IF ~int(event.marker.duration).ok THEN [err |-> "ValueError", md |-> md]
        ELSE LET attr == colors[event.marker.color]
                 recin_frames == tc_to_frames(rec_in, f[1]).val
                 dur == int(event.marker.duration).val - 1
                 recout == frames_to_tc(recin_frames + dur, f[1], drop_frame)
             IN  [err |-> "ok", md |-> [md EXCEPT ![attr] = <<event.record_in, recout>>]]

RECURSIVE MetadataLoop(_, _, _, _)
MetadataLoop(md, events, f, drop_frame) ==
    IF events = <<>> THEN [err |-> "ok", md |-> md]
    ELSE LET r == MetadataEvent(md, Head(events), f, drop_frame)
         IN  IF r.err # "ok" THEN r
             ELSE MetadataLoop(r.md, Tail(events), f, drop_frame)

\* Metadata.set on a new Metadata object: [err, md]
MetadataSet(events, f, drop_frame) ==
    MetadataLoop([NewMetadata EXCEPT !.name = EdlName], events, f, drop_frame)

\* ------------------------------------------------------------------ inputs
\* the timecodes 00:00:00:0f and 00:00:00;0f
T(f) == <<"0", "0", ":", "0", "0", ":", "0", "0", ":", "0", DigitChars[f + 1]>>

TD(f) == <<"0", "0", ":", "0", "0", ":", "0", "0", ";", "0", DigitChars[f + 1]>>

\* the timecode 00:00:01;0f
TD1(f) == <<"0", "0", ":", "0", "0", ":", "0", "1", ";", "0", DigitChars[f + 1]>>

\* a comment line, or a header line
Plain == <<"*", " ", "x">>

\* event lines of eight tokens
EvA == join(<<" ">>, <<<<"1">>, <<"A">>, <<"V">>, <<"C">>, T(1), T(2), T(0), T(2)>>)

EvB == join(<<" ", " ">>, <<<<"2">>, <<"B">>, <<"V">>, <<"C">>, TD(2), TD(2), TD(1), TD1(0)>>)

\* an event line of three tokens
EvShort == <<"3", " ", "A", " ", "V">>

\* an event line whose record_out is no timecode
EvInv == join(<<" ">>, <<<<"4">>, <<"A">>, <<"V">>, <<"C">>, T(0), T(1), T(0),
                         <<"0", "0", ":", "0", "0", ":", "0", "0", ":", "0", "z">>>>)

\* marker lines: text, then the three fields with their two-character tags
Mk == <<" ", "x", " ", "|", "C", ":">> \o ResolveColorBlue
      \o <<" ", "|", "M", ":", "n", " ", "|", "D", ":", "2">>

MkQ == <<"|", "C", ":", "q", "|", "M", ":", "n", "|", "D", ":", "1">>

Lines == {Plain, EvA, EvB, EvShort, EvInv, Mk, MkQ}

\* the line sequences of at most n lines
LineSeqs(n) == UNION {[1..k -> Lines] : k \in 0..n}

\* the frame rates a document is given
FpsSet == {3}

\* the amounts of an offset call: a frame count, or a timecode
OffsetInputs ==
    {[offset |-> <<DigitChars[n + 1]>>, frames |-> TRUE] : n \in 1..MaxAmount}
    \cup {[offset |-> T(2), frames |-> FALSE]}

TimecodeFields == {"source_in", "source_out", "record_in", "record_out"}

\* ------------------------------------------------------------ state machine
\* what the last call was, how it ended, the events of current_events before
\* it, and what it returned or wrote
Call(op, offset, frames, src, err, pre, out, undo) ==
    [op |-> op, offset |-> offset, frames |-> frames, src |-> src, err |-> err,
     pre |-> pre, out |-> out, undo |-> undo]

Current == Values(heap, current_events)

Original == Values(heap, original_events)

\* EDLReader.__init__ on the lines _read returns, for the documents of docs
Construct(docs) ==
    /\ edl_lines \in docs
    /\ resolvemarkers \in BOOLEAN
    /\ df \in BOOLEAN
    /\ fps_ \in {<<>>} \cup {<<f>> : f \in FpsSet}
    /\ \E parsed \in {parse_header_and_events(edl_lines, resolvemarkers)} :
       \E copy \in {deepcopy([r \in Range(NewObjects(parsed.events)) |-> parsed.events[r]],
                              NewObjects(parsed.events))} :
           /\ status = parsed.err
           /\ header = parsed.header
           /\ original_events = NewObjects(parsed.events)
           /\ heap = copy.heap
           /\ current_events = copy.refs
    /\ isoffset_ = FALSE
    /\ metadata = NewMetadata
    /\ last = Call("__init__", <<>>, FALSE, FALSE, status, <<>>, <<>>, <<>>)

\* the documents the transform engine is run on: no line at all; a header,
\* an event and a comment; two events with their marker lines; an event
\* whose record_out is no timecode
OffsetDocs ==
    {<<>>, <<Plain, EvA, Plain>>, <<EvA, Mk, EvB, MkQ>>, <<EvInv, Mk>>}

Init == Construct(OffsetDocs)

\* no timecode of current_events is beyond MaxFrames
WithinFrames(h, cur) ==
    \A i \in 1..Len(cur) : \A fld \in TimecodeFields : \A f \in FpsSet :
        tc_to_frames(h[cur[i]][fld], f).val <= MaxFrames

offset_forward(in, offset_src) ==
    /\ status = "ok"
    /\ \E r \in {Offset(heap, current_events, isoffset_, in.offset, in.frames, offset_src,
                     FALSE, fps_, df)} :
        /\ WithinFrames(r.heap, current_events)
        /\ heap' = r.heap
        /\ isoffset_' = r.isoffset
        /\ metadata' = NewMetadata
        /\ last' = Call("offset_forward", in.offset, in.frames, offset_src, r.err,
                        Current, <<>>, <<>>)
        /\ UNCHANGED <<edl_lines, resolvemarkers, df, status, header,
                       original_events, current_events, fps_>>

offset_backward(in, offsetsrc_tc) ==
    /\ status = "ok"
    /\ \E r \in {Offset(heap, current_events, isoffset_, in.offset, in.frames, offsetsrc_tc,
                        TRUE, fps_, df)} :
        \E undoes \in {/\ last.op = "offset_forward" /\ last.err = "ok" /\ r.err = "ok"
                        /\ last.offset = in.offset /\ last.frames = in.frames
                        /\ last.src = offsetsrc_tc} :
            /\ heap' = r.heap
            /\ isoffset_' = r.isoffset
            /\ metadata' = NewMetadata
            /\ last' = Call("offset_backward", in.offset, in.frames, offsetsrc_tc, r.err,
                            Current, <<>>, IF undoes THEN <<last.pre>> ELSE <<>>)
            /\ UNCHANGED <<edl_lines, resolvemarkers, df, status, header,
                           original_events, current_events, fps_>>

Reset ==
    /\ status = "ok"
    /\ \E r \in {reset(heap, original_events)} :
        /\ heap' = r.heap
        /\ current_events' = r.refs
        /\ isoffset_' = FALSE
        /\ metadata' = NewMetadata
        /\ last' = Call("reset", <<>>, FALSE, FALSE, "ok", Current, <<>>, <<>>)
        /\ UNCHANGED <<edl_lines, resolvemarkers, df, status, header,
                       original_events, fps_>>

\* set_fps mutated: the frame rate is set and reset() is not called
SetFpsNoReset(f) ==
    /\ status = "ok"
    /\ fps_' = <<f>>
    /\ metadata' = NewMetadata
    /\ last' = Call("set_fps", <<>>, FALSE, FALSE, "ok", Current, <<>>, <<>>)
    /\ UNCHANGED <<edl_lines, resolvemarkers, df, status, header, heap,
                   original_events, current_events, isoffset_>>

set_fps(f) ==
    /\ status = "ok"
    /\ \E r \in {reset(heap, original_events)} :
        /\ fps_' = <<f>>
        /\ heap' = r.heap
        /\ current_events' = r.refs
        /\ isoffset_' = FALSE
        /\ metadata' = NewMetadata
        /\ last' = Call("set_fps", <<>>, FALSE, FALSE, "ok", Current, <<>>, <<>>)
        /\ UNCHANGED <<edl_lines, resolvemarkers, df, status, header, original_events>>

Timecodes(src_tc) ==
    /\ status = "ok"
    /\ metadata' = NewMetadata
    /\ last' = Call("timecodes", <<>>, FALSE, src_tc, "ok", Current,
                    timecodes(heap, current_events, src_tc), <<>>)
    /\ UNCHANGED <<edl_lines, resolvemarkers, df, status, header, heap,
                   original_events, current_events, fps_, isoffset_>>

\* Metadata().set(reader); the Metadata object is the caller's and is kept
\* until the next call
Derive ==
    /\ status = "ok"
    /\ \E r \in {MetadataSet(Current, fps_, df)} :
        /\ metadata' = r.md
        /\ last' = Call("Metadata.set", <<>>, FALSE, FALSE, r.err, Current, <<>>, <<>>)
        /\ UNCHANGED <<edl_lines, resolvemarkers, df, status, header, heap,
                       original_events, current_events, fps_, isoffset_>>

Write ==
    /\ status = "ok"
    /\ metadata' = NewMetadata
    /\ last' = Call("write", <<>>, FALSE, FALSE, "ok", Current, write(header, Current), <<>>)
    /\ UNCHANGED <<edl_lines, resolvemarkers, df, status, header, heap,
                   original_events, current_events, fps_, isoffset_>>

Next ==
    \/ \E in \in OffsetInputs, offset_src \in BOOLEAN : offset_forward(in, offset_src)
    \/ \E in \in OffsetInputs, offsetsrc_tc \in BOOLEAN : offset_backward(in, offsetsrc_tc)
    \/ Reset
    \/ \E f \in FpsSet : set_fps(f)
    \/ \E src_tc \in BOOLEAN : Timecodes(src_tc)
    \/ Derive
    \/ Write

Spec == Init /\ [][Next]_vars

\* the parser and the writer on every document of at most MaxLines lines
ParseInit == Construct(LineSeqs(MaxLines))

ParseNext ==
    \/ \E src_tc \in BOOLEAN : Timecodes(src_tc)
    \/ Write

ParseSpec == ParseInit /\ [][ParseNext]_vars

\* a marker line of the main title's colour, without text before the fields
MkC == <<"|", "C", ":">> \o ResolveColorCyan \o <<"|", "M", ":", "n", "|", "D", ":", "3">>

\* the documents the metadata is derived from, two or three events with
\* their marker lines: a colour off the table before a colour of the table;
\* one colour twice; two colours; one colour twice and a colour off the table
MetaDocs ==
    {<<EvB, MkQ, EvA, Mk>>, <<EvA, Mk, EvB, Mk>>, <<EvA, Mk, EvB, MkC>>,
     <<EvA, Mk, EvB, Mk, EvA, MkQ>>}

MetaInit == Construct(MetaDocs)

\* the offsets move the record timecodes only: the derivation reads no other
MetaNext ==
    \/ \E in \in OffsetInputs : offset_forward(in, FALSE)
    \/ \E in \in OffsetInputs : offset_backward(in, FALSE)
    \/ \E f \in FpsSet : set_fps(f)
    \/ Derive

MetaSpec == MetaInit /\ [][MetaNext]_vars

\* ------------------------------------------------------------ properties
\* the event lines of a document, and the eight tokens an event was built of
DigitLed(lines) == SelectSeq(lines, LAMBDA l : isdigit(l[1]))

EventInfo(e) ==
    <<e.event_number, e.reel_name, e.channel, e.transition,
      e.source_in, e.source_out, e.record_in, e.record_out>>

\* every event line of the document has its eight tokens
EightTokens ==
    \A k \in 1..Len(DigitLed(edl_lines)) : Len(Tokens(DigitLed(edl_lines)[k])) = 8

\* a document the parser accepted, every event line of which has its eight
\* tokens, the last four of them timecodes
WellFormed ==
    /\ status = "ok"
    /\ EightTokens
    /\ \A k \in 1..Len(DigitLed(edl_lines)) : \A t \in 5..8 :
           IsTimecode(Tokens(DigitLed(edl_lines)[k])[t])

\* C1: writing the unchanged events of a well-formed document and parsing
\* the written file again (the same marker extraction mode) gives the events
\* of the first parse, field for field.
C1_RoundTrip ==
    (last.op = "write" /\ WellFormed /\ Current = Original)
        => /\ parse_header_and_events(read_(last.out), resolvemarkers).err = "ok"
           /\ parse_header_and_events(read_(last.out), resolvemarkers).events = Original

\* C2: the parsed event sequence has exactly one event per digit-led line, in
\* input order: the event in progress at the end of the input is flushed
\* whether or not annotation lines followed it.  (Stated for the documents
\* whose event lines all have their eight tokens.)
C2_EndOfInputFlush ==
    (status = "ok" /\ EightTokens)
        => /\ Len(original_events) = Len(DigitLed(edl_lines))
           /\ \A k \in 1..Len(original_events) :
                  EventInfo(Original[k]) = Tokens(DigitLed(edl_lines)[k])

\* C3: reset() makes current_events equal by value to original_events, and a
\* second reset() changes nothing the first one left.
C3_Reset ==
    last.op = "reset"
        => /\ Current = Original
           /\ ~isoffset_
           /\ reset(heap, original_events).heap = heap
           /\ reset(heap, original_events).refs = current_events

C3_Witness ==
    /\ last.op = "reset"
    /\ Len(current_events) = 2
    /\ last.pre # Original

\* C4: original_events is, in every state, the event sequence the parse
\* produced, and shares no event object with current_events.
C4_SnapshotImmutable ==
    status = "ok"
        => /\ Original = parse_header_and_events(edl_lines, resolvemarkers).events
           /\ Range(original_events) \cap Range(current_events) = {}

C4_Witness ==
    /\ last.op = "offset_backward" /\ last.err = "ok"
    /\ Len(current_events) = 2
    /\ \A i \in 1..2 : Current[i].record_in # Original[i].record_in

\* the frame count of an offset call that got as far as its loop
LastAmount == OffsetFrames(last.offset, last.frames, fps_).val

Frames(tc) == tc_to_frames(tc, fps_[1]).val

\* C5 as claimed: offset_backward(x) right after offset_forward(x), with the
\* same source flag, restores every timecode field of every event to the
\* value it had before the forward call.
C5_OffsetInverse ==
    (last.op = "offset_backward" /\ last.undo # <<>>)
        => \A i \in 1..Len(current_events) : \A fld \in TimecodeFields :
               Current[i][fld] = last.undo[1][i][fld]

\* C5 as amended: the pair restores the frame count of every timecode field;
\* the timecode itself comes back as frames_to_tc renders it, so it is the
\* string of before only where that string was already in that form.
C5_OffsetInverseFrames ==
    (last.op = "offset_backward" /\ last.undo # <<>>)
        => \A i \in 1..Len(current_events) : \A fld \in TimecodeFields :
               /\ Frames(Current[i][fld]) = Frames(last.undo[1][i][fld])
               /\ last.undo[1][i][fld]
                     = frames_to_tc(Frames(last.undo[1][i][fld]), fps_[1], df)
                  => Current[i][fld] = last.undo[1][i][fld]

\* a forward and backward pair on two events, source timecodes included, that
\* gives the first event its four timecodes back as they were written
C5_Witness ==
    /\ last.op = "offset_backward" /\ last.undo # <<>>
    /\ Len(current_events) = 2
    /\ last.src
    /\ last.pre # Current
    /\ \A fld \in TimecodeFields : Current[1][fld] = last.undo[1][1][fld]

\* C6: offset_backward leaves max(0, frames - amount) in each field it
\* writes, each field by itself: frame zero where the amount exceeds the
\* field, never a negative frame count.
C6_ClampFloor ==
    (last.op = "offset_backward" /\ last.err = "ok")
        => \A i \in 1..Len(current_events) :
           \A k \in 1..Len(OffsetFields(last.src)) :
               LET fld == OffsetFields(last.src)[k]
               IN  /\ Frames(Current[i][fld])
                        = Max(0, Frames(last.pre[i][fld]) - LastAmount)
                   /\ Frames(Current[i][fld]) >= 0

\* a backward offset that clamps record_in and not record_out
C6_Witness ==
    /\ last.op = "offset_backward" /\ last.err = "ok"
    /\ \E i \in 1..Len(current_events) :
           /\ Frames(last.pre[i].record_in) > 0
           /\ Frames(last.pre[i].record_in) < LastAmount
           /\ Frames(Current[i].record_in) = 0
           /\ Frames(last.pre[i].record_out) > LastAmount
           /\ Frames(Current[i].record_out) > 0

\* C7: offset_forward adds exactly the amount to record_in and record_out of
\* every event, with no clamp; source_in and source_out get the same addition
\* when the source flag is set and are left as they are when it is not, and
\* offset_backward selects the fields in the same way.
C7_ForwardOffset ==
    /\ (last.op = "offset_forward" /\ last.err = "ok")
          => \A i \in 1..Len(current_events) :
                 /\ \A fld \in {"record_in", "record_out"} :
                        Frames(Current[i][fld]) = Frames(last.pre[i][fld]) + LastAmount
                 /\ \A fld \in {"source_in", "source_out"} :
                        IF last.src
                        THEN Frames(Current[i][fld]) = Frames(last.pre[i][fld]) + LastAmount
                        ELSE Current[i][fld] = last.pre[i][fld]
    /\ (last.op = "offset_backward" /\ last.err = "ok" /\ ~last.src)
          => \A i \in 1..Len(current_events) :
                 /\ Current[i].source_in = last.pre[i].source_in
                 /\ Current[i].source_out = last.pre[i].source_out

\* a forward offset of the record timecodes alone that carries into the seconds
C7_Witness ==
    /\ last.op = "offset_forward" /\ last.err = "ok" /\ ~last.src
    /\ Len(current_events) = 2
    /\ \E i \in 1..2 : /\ Frames(Current[i].record_out) >= fps_[1]
                       /\ Frames(last.pre[i].record_out) < fps_[1]

\* C8: while no frame rate is set, every offset call and every metadata
\* derivation fails with the frame-rate-unset error and leaves
\* current_events as it was.
C8_FrameRateUnsetGuard ==
    (FpsUnset(fps_) /\ last.op \in {"offset_forward", "offset_backward", "Metadata.set"})
        => /\ last.err = "FrameRateUnset"
           /\ Current = last.pre

\* C9: a document with a digit-led line of fewer than 8 tokens, wherever the
\* line stands, is not parsed: the constructor fails.
C9_MalformedEvent ==
    (\E k \in 1..Len(DigitLed(edl_lines)) : Len(Tokens(DigitLed(edl_lines)[k])) < 8)
        => status # "ok"

\* the annotation lines of the k-th event, as read
Annotations(k) == RawEvents(edl_lines)[k][2]

\* a line <text>|<color field>|<name field>|<duration field>
MarkerForm(line) == Len(split(line, "|")) = 4

\* C10: with extraction enabled, an event with exactly one marker line, at
\* any position among its annotation lines, gets the marker of that line's
\* three fields (tags and surrounding whitespace removed), and its notes are
\* its annotation lines with that line cut back to its trimmed text.
C10_MarkerExtraction ==
    (status = "ok" /\ resolvemarkers)
        => \A k \in 1..Len(original_events) :
           \A m \in 1..Len(Annotations(k)) :
               (/\ MarkerForm(Annotations(k)[m])
                /\ \A j \in 1..Len(Annotations(k)) :
                       j # m => split(Annotations(k)[j], "|") = <<Annotations(k)[j]>>)
                   => /\ Original[k].marker
                           = EDLMarker(split(Annotations(k)[m], "|")[2],
                                       split(Annotations(k)[m], "|")[3],
                                       split(Annotations(k)[m], "|")[4])
                      /\ Original[k].notes
                           = [j \in 1..Len(Annotations(k)) |->
                                 IF j = m THEN strip(split(Annotations(k)[m], "|")[1])
                                 ELSE Annotations(k)[j]]

\* ------------------------------------------------ properties of the deriver
\* the marker colour of an event is a key of Metadata.colors
Mapped(e) == e.marker.color \in DOMAIN colors

\* no later event of current_events has the colour of the i-th
LastOfColor(i) ==
    \A j \in (i + 1)..Len(current_events) :
        Current[j].marker.color # Current[i].marker.color

\* record_in is a timecode and the marker's duration a frame count
Derivable(e) == IsTimecode(e.record_in) /\ int(e.marker.duration).ok

\* (record_in, frames_to_tc(tc_to_frames(record_in) + duration - 1))
DerivedPair(e) ==
    <<e.record_in,
      frames_to_tc(Frames(e.record_in) + int(e.marker.duration).val - 1, fps_[1], df)>>

\* C12: derivation completes whatever the marker colours are: an event whose
\* colour is no key of the table (the empty placeholder included) is mapped
\* to no segment, and the events with a table colour are mapped.
C12_UnrecognizedColors ==
    (/\ last.op = "Metadata.set" /\ ~FpsUnset(fps_)
     /\ \A i \in 1..Len(current_events) :
            /\ IsTimecode(Current[i].record_in)
            /\ Mapped(Current[i]) => Derivable(Current[i]))
        => /\ last.err = "ok"
           /\ \A i \in 1..Len(current_events) :
                  (Mapped(Current[i]) /\ LastOfColor(i))
                      => metadata[colors[Current[i].marker.color]] = DerivedPair(Current[i])

\* C13: after set_fps(f) current_events equals original_events by value,
\* whatever offsets were applied before the call.
C13_SetFpsResets ==
    last.op = "set_fps" => (Current = Original /\ fps_ # <<>>)

\* set_fps on two events that offsets had moved
C13_Witness ==
    /\ last.op = "set_fps"
    /\ Len(current_events) = 2
    /\ \A i \in 1..2 : last.pre[i].record_in # Original[i].record_in

\* the fields of an event that are no timecodes
StructureFields == {"event_number", "reel_name", "channel", "transition", "marker", "notes"}

\* C16: whatever offsets were applied, current_events has the length and the
\* order of original_events, and each event has the event_number, reel_name,
\* channel, transition, marker and notes of the original event at its place.
C16_RecordStructure ==
    status = "ok"
        => /\ Len(current_events) = Len(original_events)
           /\ \A i \in 1..Len(current_events) : \A fld \in StructureFields :
                  Current[i][fld] = Original[i][fld]

\* two events with notes, every timecode of which an offset has changed
C16_Witness ==
    /\ last.op \in {"offset_forward", "offset_backward"} /\ last.err = "ok"
    /\ Len(current_events) = 2
    /\ \A i \in 1..2 :
           /\ Current[i].notes # <<>>
           /\ \A fld \in TimecodeFields : Current[i][fld] # Original[i][fld]

\* C17: an offset call that fails with an invalid-timecode error leaves
\* current_events as it was before the call.
C17_OffsetAtomicity ==
    (last.op \in {"offset_forward", "offset_backward"} /\ last.err = "InvalidTimecode")
        => Current = last.pre

\* the four timecodes of an event are timecodes
ValidTimecodes(e) == \A fld \in TimecodeFields : IsTimecode(e[fld])

\* in frames at rate f: source_in <= source_out and record_in <= record_out
Ordered(e, f) ==
    /\ tc_to_frames(e.source_in, f).val <= tc_to_frames(e.source_out, f).val
    /\ tc_to_frames(e.record_in, f).val <= tc_to_frames(e.record_out, f).val

\* the document's frame rate, or every rate it can be given while it has none
Rates == IF FpsUnset(fps_) THEN FpsSet ELSE {fps_[1]}

\* C20: where every event of original_events has its in timecodes not after
\* its out timecodes, so has every event of current_events, in every state
\* offsets (clamped ones included) and resets lead to.
C20_OrderingPreserved ==
    (/\ status = "ok"
     /\ \A i \in 1..Len(original_events) : \A f \in Rates :
            ValidTimecodes(Original[i]) /\ Ordered(Original[i], f))
        => \A i \in 1..Len(current_events) : \A f \in Rates : Ordered(Current[i], f)

\* a backward offset that clamped both record timecodes of an event to zero
C20_Witness ==
    /\ last.op = "offset_backward" /\ last.err = "ok"
    /\ \E i \in 1..Len(current_events) :
           /\ ValidTimecodes(Original[i])
           /\ Frames(last.pre[i].record_in) < Frames(last.pre[i].record_out)
           /\ Frames(last.pre[i].record_in) > 0
           /\ Frames(Current[i].record_out) = 0

\* ------------------------------------------------- properties of the parser
Least(S) == CHOOSE x \in S : \A y \in S : x <= y

\* the places of the digit-led lines in the document
EventLines == {i \in 1..Len(edl_lines) : isdigit(edl_lines[i][1])}

\* the place of the k-th digit-led line
NthEventLine(k) == CHOOSE i \in EventLines : Cardinality({j \in EventLines : j <= i}) = k

\* the lines before the first digit-led line
HeaderLines ==
    IF EventLines = {} THEN edl_lines ELSE SubSeq(edl_lines, 1, Least(EventLines) - 1)

\* the lines after the digit-led line at place i, up to the next digit-led
\* line or the end of the document
NotesAfter(i) ==
    LET later == {j \in EventLines : j > i}
    IN  SubSeq(edl_lines, i + 1, IF later = {} THEN Len(edl_lines) ELSE Least(later) - 1)

\* C14: with extraction disabled, header is the lines before the first
\* digit-led line; there is one event per digit-led line and its notes are
\* the lines between that line and the next digit-led line, as read, so that
\* every line of the document has exactly one place; and every marker is the
\* empty placeholder.  (Stated for the documents whose event lines all have
\* their eight tokens.)
C14_LinePartition ==
    (~resolvemarkers /\ EightTokens)
        => /\ status = "ok"
           /\ header = HeaderLines
           /\ Len(original_events) = Cardinality(EventLines)
           /\ \A k \in 1..Len(original_events) :
                  /\ EventInfo(Original[k]) = Tokens(edl_lines[NthEventLine(k)])
                  /\ Original[k].notes = NotesAfter(NthEventLine(k))
                  /\ Original[k].marker = [color |-> <<>>, name |-> <<>>, duration |-> <<>>]

\* the number of delimiters in a list of lines
RECURSIVE Delimiters(_)
Delimiters(lines) ==
    IF lines = <<>> THEN 0
    ELSE Cardinality({i \in 1..Len(Head(lines)) : Head(lines)[i] = "|"})
         + Delimiters(Tail(lines))

\* C15: with extraction enabled, a document with an event whose annotation
\* lines hold no delimiter (an event without annotation lines included), or
\* delimiters for another number of fields than three, is not parsed: the
\* constructor fails with the malformed-marker error.  (Stated for the
\* documents whose event lines all have their eight tokens.)
C15_MalformedMarker ==
    (/\ resolvemarkers /\ EightTokens
     /\ \E i \in EventLines : Delimiters(NotesAfter(i)) # 3)
        => status = "MalformedMarker"

\* ------------------------------------------- properties of the derived map
\* the six segment names
Segments == {colors[c] : c \in DOMAIN colors}

\* the pair of a segment nothing was stored in
EmptyPair == <<<<>>, <<>>>>

\* C11: derivation stores, for every event whose marker colour is a colour
\* of the table, the pair (record_in, frames_to_tc(tc_to_frames(record_in) +
\* duration - 1)) under the segment name of the colour (where several events
\* have the colour, the pair of the last one is what the segment holds).
C11_DerivationFormula ==
    (last.op = "Metadata.set" /\ ~FpsUnset(fps_))
        => \A i \in 1..Len(current_events) :
               (Mapped(Current[i]) /\ Derivable(Current[i]) /\ LastOfColor(i))
                   => metadata[colors[Current[i].marker.color]] = DerivedPair(Current[i])

\* C18: derivation changes no event of current_events or original_events,
\* with the drop-frame flag or without, and the start stored in a segment is
\* the record_in of the event as the event holds it.
C18_DerivationReadOnly ==
    last.op = "Metadata.set"
        => /\ Current = last.pre
           /\ Original = parse_header_and_events(edl_lines, resolvemarkers).events
           /\ \A seg \in Segments :
                  metadata[seg] # EmptyPair
                      => \E i \in 1..Len(current_events) :
                             /\ Mapped(Current[i])
                             /\ colors[Current[i].marker.color] = seg
                             /\ metadata[seg][1] = Current[i].record_in

\* a derivation with the drop-frame flag set that stored a start written
\* with ':' and an end rendered with ';'
C18_Witness ==
    /\ last.op = "Metadata.set" /\ last.err = "ok" /\ df
    /\ metadata.prevon # EmptyPair
    /\ metadata.prevon[1][9] = ":"
    /\ metadata.prevon[2][9] = ";"

\* C19: where several events carry the same colour of the table, derivation
\* reports no error and the segment holds the pair of the last of them; a
\* segment whose colour no event carries keeps the empty pair.
C19_RepeatedColors ==
    (/\ last.op = "Metadata.set" /\ ~FpsUnset(fps_)
     /\ \E i, j \in 1..Len(current_events) :
            i < j /\ Mapped(Current[i]) /\ Current[i].marker.color = Current[j].marker.color
     /\ \A i \in 1..Len(current_events) :
            IsTimecode(Current[i].record_in) /\ (Mapped(Current[i]) => Derivable(Current[i])))
        => /\ last.err = "ok"
           /\ \A i \in 1..Len(current_events) :
                  (Mapped(Current[i]) /\ LastOfColor(i))
                      => metadata[colors[Current[i].marker.color]] = DerivedPair(Current[i])
           /\ \A seg \in Segments :
                  (\A i \in 1..Len(current_events) :
                       Mapped(Current[i]) => colors[Current[i].marker.color] # seg)
                      => metadata[seg] = EmptyPair

====
